---- MODULE Spec2Model ----
(***************************************************************************)
(* State-machine model of the 3D scene viewer: GraphicsEngine (main.py),   *)
(* Camera (camera.py), Light (light.py), Mesh/VAO/VBO/ShaderProgram        *)
(* (mesh.py, vao.py, vbo.py, shader_program.py), the model classes         *)
(* (model.py), Scene (scene.py) and SceneRenderer (scene_renderer.py).     *)
(*                                                                         *)
(* Numbers.  Floats are modelled in fixed point:                           *)
(*   - unit vectors and the rotation part of matrices in 1/ONE,            *)
(*   - camera angles in mouse counts: one count is SENSITIVITY (0.05)      *)
(*     degrees, so a degree is COUNTS_PER_DEGREE counts,                   *)
(*   - the camera position in 1/(100*ONE) world units, so that             *)
(*     position += vector * SPEED * delta_time is vector * delta_time,     *)
(*   - model rotations in quarter turns (app.time is counted in units of   *)
(*     a quarter turn), which keeps the model matrices integral.           *)
(***************************************************************************)
EXTENDS Integers, Sequences, FiniteSets, TLC

\* ------------------------------------------------------------------ bounds
\* Number of iterations of the main loop that are explored.
MaxFrames == 2
GRID_N == 4
MAX_QUARTER == 2
\* scene.py load(): n of the floor grid, range(-n, n, s) (20 in the source).
FLOOR_N == 1
\* scene.py load(): number of column pairs, range(9) in the source.
NUM_COLUMNS == 1

\* --------------------------------------------------------------- constants
\* Fixed-point representation of 1.0.
ONE == 10 * 100
\* camera.py: SENSITIVITY = 0.05 degrees per mouse count.
COUNTS_PER_DEGREE == 20
\* camera.py rotate(): pitch clamp, in degrees.
PITCH_LIMIT == 89
\* scene.py load(): s, the grid step.
FLOOR_S == 2
\* camera.py: 1 / tan(FOV / 2) for FOV = 50 degrees, in 1/ONE.
COT_HALF_FOV == 2145

\* ------------------------------------------------------------- arithmetic
Abs(a) == IF a < 0 THEN -a ELSE a

\* a / b rounded to nearest (b > 0), as float division is modelled.
DivRound(a, b) ==
    LET q == a \div b
        r == a % b
    IN  IF 2 * r >= b THEN q + 1 ELSE q

RECURSIVE SqrtSearch(_, _, _)
SqrtSearch(n, lo, hi) ==
    IF lo >= hi THEN lo
    ELSE LET mid == (lo + hi + 1) \div 2
         IN  IF mid * mid <= n THEN SqrtSearch(n, mid, hi)
             ELSE SqrtSearch(n, lo, mid - 1)

\* floor(sqrt(n)) for 0 <= n < 46340^2
ISqrt(n) == SqrtSearch(n, 0, 46340)

\* ---------------------------------------------------------------- vectors
Vec3(x, y, z) == <<x, y, z>>
VAdd(a, b) == <<a[1] + b[1], a[2] + b[2], a[3] + b[3]>>
VSub(a, b) == <<a[1] - b[1], a[2] - b[2], a[3] - b[3]>>
VNeg(a) == <<-a[1], -a[2], -a[3]>>
VScale(a, k) == <<a[1] * k, a[2] * k, a[3] * k>>

\* glm.dot of two fixed-point vectors (result in the product's unit).
Dot(a, b) == a[1] * b[1] + a[2] * b[2] + a[3] * b[3]

\* glm.cross of two vectors in 1/ONE, result in 1/ONE.
Cross(a, b) ==
    << DivRound(a[2] * b[3] - a[3] * b[2], ONE),
       DivRound(a[3] * b[1] - a[1] * b[3], ONE),
       DivRound(a[1] * b[2] - a[2] * b[1], ONE) >>

MaxAbs(v) ==
    LET a == Abs(v[1])
        b == Abs(v[2])
        c == Abs(v[3])
        ab == IF a >= b THEN a ELSE b
    IN  IF ab >= c THEN ab ELSE c

\* glm.normalize: the vector divided by its length, result in 1/ONE.  The
\* input may be in any unit (a float's exponent): it is first rescaled so
\* that its largest component is 10000, which keeps the squares in range.
Normalize(v) ==
    LET m == MaxAbs(v)
        w == << DivRound(v[1] * 10000, m), DivRound(v[2] * 10000, m),
                DivRound(v[3] * 10000, m) >>
        len == ISqrt(Dot(w, w))
    IN  << DivRound(w[1] * ONE, len), DivRound(w[2] * ONE, len),
           DivRound(w[3] * ONE, len) >>

\* --------------------------------------------------------------- matrices
\* A mat4 is a tuple of 4 rows of 4 entries, M[row][column].
Idx4 == 1..4

\* glm.mat4(): the identity, with unit u (1 for integral matrices, ONE for
\* fixed-point ones).
IdentityOf(u) == << <<u, 0, 0, 0>>, <<0, u, 0, 0>>, <<0, 0, u, 0>>, <<0, 0, 0, u>> >>

\* Entry (r, c) of the product of two integral matrices.
MulEntry(A, B, r, c) ==
    A[r][1] * B[1][c] + A[r][2] * B[2][c] + A[r][3] * B[3][c] + A[r][4] * B[4][c]

MulRow(A, B, r) ==
    << MulEntry(A, B, r, 1), MulEntry(A, B, r, 2), MulEntry(A, B, r, 3),
       MulEntry(A, B, r, 4) >>

\* Product of two integral matrices.
MatMul(A, B) == << MulRow(A, B, 1), MulRow(A, B, 2), MulRow(A, B, 3), MulRow(A, B, 4) >>

MulRowFx(A, B, r) ==
    << DivRound(MulEntry(A, B, r, 1), ONE), DivRound(MulEntry(A, B, r, 2), ONE),
       DivRound(MulEntry(A, B, r, 3), ONE), DivRound(MulEntry(A, B, r, 4), ONE) >>

\* Product of two fixed-point matrices in 1/ONE.
MatMulFx(A, B) ==
    << MulRowFx(A, B, 1), MulRowFx(A, B, 2), MulRowFx(A, B, 3), MulRowFx(A, B, 4) >>

Transpose(A) ==
    << <<A[1][1], A[2][1], A[3][1], A[4][1]>>, <<A[1][2], A[2][2], A[3][2], A[4][2]>>,
       <<A[1][3], A[2][3], A[3][3], A[4][3]>>, <<A[1][4], A[2][4], A[3][4], A[4][4]>> >>

\* A conversion that keeps the whole 4x4 matrix.
KeepMat4(m) == m

\* glm.mat4(glm.mat3(m)): the upper-left 3x3 block, re-expanded with the
\* identity's last row and column.
Mat4OfMat3(m) ==
    << <<m[1][1], m[1][2], m[1][3], 0>>, <<m[2][1], m[2][2], m[2][3], 0>>,
       <<m[3][1], m[3][2], m[3][3], 0>>, <<0, 0, 0, ONE>> >>

\* ----------------------------------------------------------- trigonometry
\* sin of the first-quadrant angles the model reaches, in 1/ONE.
SinQ1(d) ==
    CASE d = 0 -> 0
      [] d = 1 -> 17
      [] d = 29 -> 485
      [] d = 30 -> 500
      [] d = 31 -> 515
      [] d = 59 -> 857
      [] d = 60 -> 866
      [] d = 61 -> 875
      [] d = 89 -> 1000
      [] d = 90 -> 1000

\* glm.sin(glm.radians(d)) for d in whole degrees.
SinDeg(d) ==
    LET m == d % 360
    IN  IF m <= 90 THEN SinQ1(m)
        ELSE IF m <= 180 THEN SinQ1(180 - m)
        ELSE IF m <= 270 THEN -SinQ1(m - 180)
        ELSE -SinQ1(360 - m)

\* glm.cos(glm.radians(d)) for d in whole degrees.
CosDeg(d) == SinDeg(d + 90)

\* Degrees of an angle kept in mouse counts (the model's inputs keep the
\* angles on whole degrees).
Degrees(counts) ==
    CASE counts % COUNTS_PER_DEGREE = 0 -> counts \div COUNTS_PER_DEGREE

\* cos and sin of a whole number q of quarter turns.
CosQ(q) == CASE q % 4 = 0 -> 1 [] q % 4 = 1 -> 0 [] q % 4 = 2 -> -1 [] q % 4 = 3 -> 0
SinQ(q) == CASE q % 4 = 0 -> 0 [] q % 4 = 1 -> 1 [] q % 4 = 2 -> 0 [] q % 4 = 3 -> -1

\* ------------------------------------------------------------ glm matrices
\* glm.translate(m, v) = m * T(v), integral.
Translate(m, v) ==
    MatMul(m, << <<1, 0, 0, v[1]>>, <<0, 1, 0, v[2]>>, <<0, 0, 1, v[3]>>,
                 <<0, 0, 0, 1>> >>)

\* glm.rotate(m, angle, vec3(0, 0, 1)) for an angle of q quarter turns.
RotateZ(m, q) ==
    MatMul(m, << <<CosQ(q), -SinQ(q), 0, 0>>, <<SinQ(q), CosQ(q), 0, 0>>,
                 <<0, 0, 1, 0>>, <<0, 0, 0, 1>> >>)

\* glm.rotate(m, angle, vec3(0, 1, 0)) for an angle of q quarter turns.
RotateY(m, q) ==
    MatMul(m, << <<CosQ(q), 0, SinQ(q), 0>>, <<0, 1, 0, 0>>,
                 <<-SinQ(q), 0, CosQ(q), 0>>, <<0, 0, 0, 1>> >>)

\* glm.rotate(m, angle, vec3(1, 0, 0)) for an angle of q quarter turns.
RotateX(m, q) ==
    MatMul(m, << <<1, 0, 0, 0>>, <<0, CosQ(q), -SinQ(q), 0>>,
                 <<0, SinQ(q), CosQ(q), 0>>, <<0, 0, 0, 1>> >>)

\* glm.scale(m, v) = m * S(v), integral.
Scale(m, v) ==
    MatMul(m, << <<v[1], 0, 0, 0>>, <<0, v[2], 0, 0>>, <<0, 0, v[3], 0>>,
                 <<0, 0, 0, 1>> >>)

\* glm.lookAt(eye, center, up): eye and center in one unit, up in 1/ONE.
\* The rotation block and the last row are in 1/ONE, the translation
\* column is in the unit of eye.
LookAt(eye, center, up) ==
    LET f == Normalize(VSub(center, eye))
        s == Normalize(Cross(f, up))
        u == Cross(s, f)
    IN  << <<s[1], s[2], s[3], -DivRound(Dot(s, eye), ONE)>>,
           <<u[1], u[2], u[3], -DivRound(Dot(u, eye), ONE)>>,
           <<-f[1], -f[2], -f[3], DivRound(Dot(f, eye), ONE)>>,
           <<0, 0, 0, ONE>> >>

\* ------------------------------------------------------------------ light
\* light.py Light.get_view_matrix: lookAt(position, direction, (0, 1, 0))
\* with position (50, 50, -10) and direction (0, 0, 0), in world units.
LightViewMatrix == LookAt(<<50, 50, -10>>, <<0, 0, 0>>, <<0, ONE, 0>>)

\* ----------------------------------------------------------------- camera
\* The camera position is kept in 1/POS_UNIT world units.
POS_UNIT == 100 * ONE

\* camera.py Camera.get_view_matrix
get_view_matrix(cam) ==
    LookAt(cam.position, VAdd(cam.position, VScale(cam.forward, POS_UNIT \div ONE)),
           cam.up)

\* camera.py Camera.get_projection_matrix: glm.perspective(radians(FOV),
\* 1600 / 900, NEAR, FAR) with NEAR = 0.1 and FAR = 100, in 1/ONE.
get_projection_matrix ==
    << <<DivRound(COT_HALF_FOV * 900, 1600), 0, 0, 0>>,
       <<0, COT_HALF_FOV, 0, 0>>,
       <<0, 0, -DivRound(1001 * ONE, 999), -DivRound(2 * 100 * ONE, 999)>>,
       <<0, 0, -ONE, 0>> >>

\* camera.py Camera.__init__ with the default position (0, 0, 4), yaw -90
\* and pitch 0.
CameraInit ==
    LET c0 == [position |-> <<0, 0, 4 * POS_UNIT>>,
               up |-> <<0, ONE, 0>>,
               right |-> <<ONE, 0, 0>>,
               forward |-> <<0, 0, -ONE>>,
               yaw |-> -90 * COUNTS_PER_DEGREE,
               pitch |-> 0]
    IN  [position |-> c0.position, up |-> c0.up, right |-> c0.right,
         forward |-> c0.forward, yaw |-> c0.yaw, pitch |-> c0.pitch,
         m_view |-> get_view_matrix(c0)]

\* camera.py rotate(): max(-89, min(89, pitch)), in mouse counts.
ClampNone(p) == p
ClampPitch(p) ==
    LET hi == PITCH_LIMIT * COUNTS_PER_DEGREE
        lo == -(PITCH_LIMIT * COUNTS_PER_DEGREE)
        m  == IF p < hi THEN p ELSE hi
    IN  IF m > lo THEN m ELSE lo

\* camera.py Camera.rotate: rel = (rel_x, rel_y) from pg.mouse.get_rel().
rotate(cam, rel) ==
    [cam EXCEPT !.yaw = cam.yaw + rel[1],
                !.pitch = ClampPitch(cam.pitch - rel[2])]

\* camera.py Camera.update_camera_vectors
update_camera_vectors(cam) ==
    LET yaw == Degrees(cam.yaw)
        pitch == Degrees(cam.pitch)
        f0 == << DivRound(CosDeg(yaw) * CosDeg(pitch), ONE),
                 SinDeg(pitch),
                 DivRound(SinDeg(yaw) * CosDeg(pitch), ONE) >>
        forward == Normalize(f0)
        right == Normalize(Cross(forward, <<0, ONE, 0>>))
        up == Normalize(Cross(right, forward))
    IN  [cam EXCEPT !.forward = forward, !.right = right, !.up = up]

\* camera.py Camera.move: keys is the set of held keys, delta_time in ms;
\* velocity = SPEED * delta_time is delta_time position units per 1/ONE.
move(cam, keys, delta_time) ==
    LET velocity == delta_time
        p0 == cam.position
        p1 == IF "w" \in keys THEN VAdd(p0, VScale(cam.forward, velocity)) ELSE p0
        p2 == IF "s" \in keys THEN VSub(p1, VScale(cam.forward, velocity)) ELSE p1
        p3 == IF "a" \in keys THEN VSub(p2, VScale(cam.right, velocity)) ELSE p2
        p4 == IF "d" \in keys THEN VAdd(p3, VScale(cam.right, velocity)) ELSE p3
        p5 == IF "q" \in keys THEN VAdd(p4, VScale(cam.up, velocity)) ELSE p4
        p6 == IF "e" \in keys THEN VSub(p5, VScale(cam.up, velocity)) ELSE p5
    IN  [cam EXCEPT !.position = p6]

\* The order the specification gives: rotate, re-derive, move, view matrix.
CameraUpdateRotateFirst(cam, keys, rel, delta_time) ==
    LET a == rotate(cam, rel)
        b == update_camera_vectors(a)
        c == move(b, keys, delta_time)
    IN  [c EXCEPT !.m_view = get_view_matrix(c)]

\* camera.py Camera.update: move, rotate, update_camera_vectors, view matrix.
CameraUpdate(cam, keys, rel, delta_time) ==
    LET a == move(cam, keys, delta_time)
        b == rotate(a, rel)
        c == update_camera_vectors(b)
    IN  [c EXCEPT !.m_view = get_view_matrix(c)]

\* ------------------------------------------------------------------ models
\* A composition that rotates about x first and about z last.
get_model_matrix_xyz(o) ==
    Scale(RotateZ(RotateY(RotateX(Translate(IdentityOf(1), o.pos), o.rot[1]),
                          o.rot[2]), o.rot[3]), o.scale)

\* model.py BaseModel.get_model_matrix: translate, rotate z, y, x, scale.
get_model_matrix(o) ==
    Scale(RotateX(RotateY(RotateZ(Translate(IdentityOf(1), o.pos), o.rot[3]),
                          o.rot[2]), o.rot[1]), o.scale)

\* ------------------------------------------------------------------ inputs
\* pg.key.get_pressed(): the sets of held movement keys that are explored.
KeySets == { {"w", "d", "q"}, {"s", "a", "e"} }
\* pg.mouse.get_rel(): (rel_x, rel_y) in mouse counts that are explored.
MouseRels == { <<0, 0>>, <<1800, -1200>>, <<-1800, 1200>> }
\* clock.tick(60): milliseconds since the previous frame.
DeltaTimes == { 16, 17 }
\* pg.event.get(): the event lists that are explored.
EventLists ==
    { <<>>, <<"MOUSEMOTION">>, <<"KEYDOWN_w">>, <<"QUIT">>,
      <<"KEYDOWN_ESCAPE">>, <<"MOUSEMOTION", "QUIT">> }

\* ------------------------------------------------------------ GPU objects
\* shader_program.py ShaderProgram.__init__: the programs, in loading order.
ShaderNames == <<"default", "skybox", "advanced_skybox", "shadow_map">>
\* shader_program.py get_program: the two files opened for a program.
ShaderFilesOf(name) == <<  <<name, "vert">>, <<name, "frag">>  >>
ShaderFiles == { <<ShaderNames[i], e>> : i \in 1..4, e \in {"vert", "frag"} }

\* vbo.py VBO.__init__: the buffers, in creation order, and the attributes
\* (format, attribs) each subclass declares.
VboNames == <<"cube", "cat", "skybox", "advanced_skybox">>
VboAttribs(name) ==
    IF name \in {"cube", "cat"}
    THEN <<"in_texcoord_0", "in_normal", "in_position">>
    ELSE <<"in_position">>

\* vao.py VAO.__init__: the vertex arrays, in creation order, as
\* (name, program, vbo).
VaoTable ==
    << <<"cube", "default", "cube">>,
       <<"shadow_cube", "shadow_map", "cube">>,
       <<"cat", "default", "cat">>,
       <<"shadow_cat", "shadow_map", "cat">>,
       <<"skybox", "skybox", "skybox">>,
       <<"advanced_skybox", "advanced_skybox", "advanced_skybox">> >>

\* The textures the Texture object holds (texture.py is not in src/): the
\* 2D textures 0, 1, 2 and 'cat', the cubemap 'skybox', the depth texture.
TextureNames == <<"0", "1", "2", "cat", "skybox", "depth_texture">>
\* The binding target of a texture: the cubemap binds to the cube target of
\* a texture unit, every other texture to its 2D target.
TextureTarget(tex) == IF tex = "skybox" THEN "cube" ELSE "t2d"

SeqToSet(q) == { q[i] : i \in 1..Len(q) }

Res(kind, name) == <<kind, name>>
ResSeq(kind, names) == [i \in 1..Len(names) |-> Res(kind, names[i])]

\* The vertex inputs a shader's source may declare (the shader sources are
\* data files read at startup).
InputSets == { {"in_position"}, {"in_texcoord_0", "in_normal", "in_position"} }

\* -------------------------------------------------------------- uniforms
ZeroMat == IdentityOf(0)
ZeroVec == <<0, 0, 0>>

\* A program's uniforms, with GLSL's zero defaults.
NewProgram ==
    [m_proj |-> ZeroMat, m_view |-> ZeroMat, m_model |-> ZeroMat,
     m_view_light |-> ZeroMat, m_invProjView |-> ZeroMat,
     camPos |-> ZeroVec, u_resolution |-> <<0, 0>>,
     shadowMap |-> 0, u_texture_0 |-> 0, u_texture_skybox |-> 0,
     light_position |-> ZeroVec, light_Ia |-> ZeroVec, light_Id |-> ZeroVec,
     light_Is |-> ZeroVec]

\* program[name].write(value) / program[name] = value
UOp(prog, name, value) ==
    [kind |-> "uniform", prog |-> prog, name |-> name, value |-> value]
\* texture.use(location=loc)
TOp(tex, loc) ==
    [kind |-> "texture", prog |-> tex,
     name |-> IF loc = 0 THEN "unit0" ELSE "unit1", value |-> 0]

\* The greatest element of a non-empty set of indices.
MaxOf(S) == CHOOSE i \in S : \A j \in S : j <= i

\* The indices of the writes of ops to uniform n of program p.
UniformHits(ops, p, n) ==
    { i \in 1..Len(ops) : ops[i].kind = "uniform" /\ ops[i].prog = p /\ ops[i].name = n }

\* The indices of the bindings of ops to target t of texture unit u.
TextureHits(ops, u, t) ==
    { i \in 1..Len(ops) :
        ops[i].kind = "texture" /\ ops[i].name = u /\ TextureTarget(ops[i].prog) = t }

\* The log entries of a sequence of writes issued by scene object by.
LogOf(ops, by) ==
    [i \in 1..Len(ops) |->
        [obj |-> by, kind |-> ops[i].kind, prog |-> ops[i].prog, name |-> ops[i].name]]

\* The effect of a sequence of writes on the GPU state st = [program, units,
\* writes]: every uniform and texture unit holds the value of the last write
\* to it; by is the index of the scene object that issues the writes (0: the
\* skybox).
ApplyOps(st, ops, by) ==
    [program |->
        [p \in DOMAIN st.program |->
            [n \in DOMAIN st.program[p] |->
                IF UniformHits(ops, p, n) = {} THEN st.program[p][n]
                ELSE ops[MaxOf(UniformHits(ops, p, n))].value]],
     units |->
        [u \in DOMAIN st.units |->
            [t \in DOMAIN st.units[u] |->
                IF TextureHits(ops, u, t) = {} THEN st.units[u][t]
                ELSE ops[MaxOf(TextureHits(ops, u, t))].prog]],
     writes |-> st.writes \o LogOf(ops, by)]

\* ----------------------------------------------------------- scene objects
\* model.py BaseModel.__init__: rot is given in quarter turns (degrees / 90).
BaseModel(cls, vao_name, tex_id, pos, rot, scale) ==
    LET o == [cls |-> cls, vao_name |-> vao_name, tex_id |-> tex_id,
              pos |-> pos, rot |-> rot, scale |-> scale]
    IN  [cls |-> cls, vao_name |-> vao_name, tex_id |-> tex_id, pos |-> pos,
         rot |-> rot, scale |-> scale, m_model |-> get_model_matrix(o)]

\* model.py Cube.__init__ defaults: vao 'cube', no rotation, unit scale.
Cube(pos, tex_id) == BaseModel("Cube", "cube", tex_id, pos, <<0, 0, 0>>, <<1, 1, 1>>)
\* model.py Cat.__init__ defaults: vao 'cat', texture 'cat', rot (-90, 0, 0).
Cat(pos) == BaseModel("Cat", "cat", "cat", pos, <<-1, 0, 0>>, <<1, 1, 1>>)
\* model.py MovingCube.__init__: a Cube.
MovingCube(pos, scale, tex_id) ==
    BaseModel("MovingCube", "cube", tex_id, pos, <<0, 0, 0>>, scale)
\* model.py AdvancedSkyBox.__init__ defaults.
AdvancedSkyBox ==
    BaseModel("AdvancedSkyBox", "advanced_skybox", "skybox", <<0, 0, 0>>,
              <<0, 0, 0>>, <<1, 1, 1>>)
\* The scene's skybox before Scene.__init__ has run.
NoSkyBox ==
    [cls |-> "none", vao_name |-> "none", tex_id |-> "none", pos |-> <<0, 0, 0>>,
     rot |-> <<0, 0, 0>>, scale |-> <<1, 1, 1>>, m_model |-> ZeroMat]

\* Python's range(lo, hi, step) for step > 0, as a sequence.
Range(lo, hi, step) ==
    [k \in 1..(IF hi > lo THEN (hi - lo + step - 1) \div step ELSE 0) |->
        lo + (k - 1) * step]

\* scene.py Scene.load: the floor, the columns, the cat, the moving cube.
FloorObjects ==
    LET r == Range(-FLOOR_N, FLOOR_N, FLOOR_S)
        c == Len(r)
    IN  [i \in 1..(c * c) |->
            Cube(<<r[((i - 1) \div c) + 1], -FLOOR_S, r[((i - 1) % c) + 1]>>, "0")]

ColumnObjects ==
    [k \in 1..(2 * NUM_COLUMNS) |->
        LET i == (k - 1) \div 2
        IN  IF k % 2 = 1 THEN Cube(<<15, i * FLOOR_S, -9 + i>>, "2")
            ELSE Cube(<<15, i * FLOOR_S, 5 - i>>, "2")]

SceneLoad ==
    FloorObjects \o ColumnObjects \o <<Cat(<<0, -1, -10>>)>>
        \o <<MovingCube(<<0, 6, 8>>, <<3, 3, 3>>, "1")>>

\* scene.py: self.moving_cube, as an index into self.objects.
MovingCubeIndex(objs) == CHOOSE i \in 1..Len(objs) : objs[i].cls = "MovingCube"

\* model.py ExtendedBaseModel.on_init: the uniform writes and texture
\* bindings, in order; V is app.mesh.vao.vaos.
OnInitOps(o, V, cam) ==
    LET prog == V[o.vao_name].program
        shadow == V["shadow_" \o o.vao_name].program
    IN  << UOp(prog, "m_view_light", LightViewMatrix),
           UOp(prog, "u_resolution", <<1600, 900>>),
           UOp(prog, "shadowMap", 1),
           TOp("depth_texture", 1),
           UOp(shadow, "m_proj", get_projection_matrix),
           UOp(shadow, "m_view_light", LightViewMatrix),
           UOp(shadow, "m_model", o.m_model),
           UOp(prog, "u_texture_0", 0),
           TOp(o.tex_id, 0),
           UOp(prog, "m_proj", get_projection_matrix),
           UOp(prog, "m_view", cam.m_view),
           UOp(prog, "m_model", o.m_model),
           UOp(prog, "light_position", <<50, 50, -10>>),
           UOp(prog, "light_Ia", <<60, 60, 60>>),
           UOp(prog, "light_Id", <<800, 800, 800>>),
           UOp(prog, "light_Is", <<ONE, ONE, ONE>>) >>

\* An update that also re-issues the static projection binding every frame.
UpdateOpsWithProj(o, V, cam) ==
    LET prog == V[o.vao_name].program
    IN  << TOp(o.tex_id, 0),
           UOp(prog, "m_proj", get_projection_matrix),
           UOp(prog, "camPos", cam.position),
           UOp(prog, "m_view", cam.m_view),
           UOp(prog, "m_model", o.m_model) >>

\* model.py ExtendedBaseModel.update
UpdateOps(o, V, cam) ==
    LET prog == V[o.vao_name].program
    IN  << TOp(o.tex_id, 0),
           UOp(prog, "camPos", cam.position),
           UOp(prog, "m_view", cam.m_view),
           UOp(prog, "m_model", o.m_model) >>

\* A shadow update that writes nothing.
UpdateShadowOpsNone(o, V) == <<>>

\* model.py ExtendedBaseModel.update_shadow
UpdateShadowOps(o, V) ==
    << UOp(V["shadow_" \o o.vao_name].program, "m_model", o.m_model) >>

\* model.py MovingCube.update / BaseModel.update: what update() does to the
\* object itself before the uniform writes.
UpdateObject(o) ==
    IF o.cls = "MovingCube" THEN [o EXCEPT !.m_model = get_model_matrix(o)]
    ELSE o

\* glm.inverse(m_proj * m_view) for a perspective matrix and a pure rotation:
\* transpose(rotation) * inverse(perspective), in 1/ONE.
InverseProjView(proj, view3) ==
    LET pinv == << <<DivRound(ONE * ONE, proj[1][1]), 0, 0, 0>>,
                   <<0, DivRound(ONE * ONE, proj[2][2]), 0, 0>>,
                   <<0, 0, 0, -ONE>>,
                   <<0, 0, -DivRound(ONE * ONE, -proj[3][4]),
                     DivRound((-proj[3][3]) * ONE, -proj[3][4])>> >>
    IN  MatMulFx(Transpose(view3), pinv)

\* model.py SkyBox.__init__ defaults.
SkyBox ==
    BaseModel("SkyBox", "skybox", "skybox", <<0, 0, 0>>, <<0, 0, 0>>, <<1, 1, 1>>)

\* model.py SkyBox.on_init
BasicSkyBoxOnInitOps(o, V, cam) ==
    << UOp(V[o.vao_name].program, "u_texture_skybox", 0),
       TOp(o.tex_id, 0),
       UOp(V[o.vao_name].program, "m_proj", get_projection_matrix),
       UOp(V[o.vao_name].program, "m_view", Mat4OfMat3(cam.m_view)) >>

\* model.py SkyBox.update
BasicSkyBoxUpdateOps(o, V, cam) ==
    << UOp(V[o.vao_name].program, "m_view", Mat4OfMat3(cam.m_view)) >>

\* model.py AdvancedSkyBox.on_init
SkyBoxOnInitOps(o, V) ==
    << UOp(V[o.vao_name].program, "u_texture_skybox", 0), TOp(o.tex_id, 0) >>

\* model.py AdvancedSkyBox.update
SkyBoxUpdateOps(o, V, cam) ==
    << UOp(V[o.vao_name].program, "m_invProjView",
           InverseProjView(get_projection_matrix, Mat4OfMat3(cam.m_view))) >>

\* ------------------------------------------------------------ vertex data
\* vbo.py CubeVBO.get_vertex_data: the corners and the triangles (indices
\* into the corners, from 0 as in the source).
CubeVertices ==
    << <<-1, -1, 1>>, <<1, -1, 1>>, <<1, 1, 1>>, <<-1, 1, 1>>,
       <<-1, 1, -1>>, <<-1, -1, -1>>, <<1, -1, -1>>, <<1, 1, -1>> >>

\* An index table whose first triangle names one corner twice.
CubeIndicesDegenerate ==
    << <<0, 2, 2>>, <<0, 1, 2>>,
       <<1, 7, 2>>, <<1, 6, 7>>,
       <<6, 5, 4>>, <<4, 7, 6>>,
       <<3, 4, 5>>, <<3, 5, 0>>,
       <<3, 7, 4>>, <<3, 2, 7>>,
       <<0, 6, 1>>, <<0, 5, 6>> >>

CubeIndices ==
    << <<0, 2, 3>>, <<0, 1, 2>>,
       <<1, 7, 2>>, <<1, 6, 7>>,
       <<6, 5, 4>>, <<4, 7, 6>>,
       <<3, 4, 5>>, <<3, 5, 0>>,
       <<3, 7, 4>>, <<3, 2, 7>>,
       <<0, 6, 1>>, <<0, 5, 6>> >>

TexCoordVertices == << <<0, 0>>, <<1, 0>>, <<1, 1>>, <<0, 1>> >>

TexCoordIndices ==
    << <<0, 2, 3>>, <<0, 1, 2>>,
       <<0, 2, 3>>, <<0, 1, 2>>,
       <<0, 1, 2>>, <<2, 3, 0>>,
       <<2, 3, 0>>, <<2, 0, 1>>,
       <<0, 2, 3>>, <<0, 1, 2>>,
       <<3, 1, 2>>, <<3, 0, 1>> >>

\* The normals with those of the second and the fourth face exchanged.
CubeNormalsExchanged ==
    << <<0, 0, 1>>, <<-1, 0, 0>>, <<0, 0, -1>>, <<1, 0, 0>>, <<0, 1, 0>>,
       <<0, -1, 0>> >>

\* The six tuples that get_vertex_data multiplies by 6.
CubeNormals ==
    << <<0, 0, 1>>, <<1, 0, 0>>, <<0, 0, -1>>, <<-1, 0, 0>>, <<0, 1, 0>>,
       <<0, -1, 0>> >>

\* vbo.py get_data: [vertices[ind] for triangle in indices for ind in triangle].
get_data(vertices, indices) ==
    [k \in 1..(3 * Len(indices)) |->
        vertices[indices[((k - 1) \div 3) + 1][((k - 1) % 3) + 1] + 1]]

\* Python's tuple * n: the tuple repeated n times, as one flat tuple.
TupleTimes(t, n) == [k \in 1..(n * Len(t)) |-> t[((k - 1) % Len(t)) + 1]]

\* np.array(rows).reshape(n, 3): the rows laid end to end, cut in threes.
Reshape3(rows, n) ==
    LET w == Len(rows[1])
        flat(k) == rows[((k - 1) \div w) + 1][((k - 1) % w) + 1]
    IN  [r \in 1..n |-> << flat(3 * r - 2), flat(3 * r - 1), flat(3 * r) >>]

\* np.hstack([a, b]): row k of a followed by row k of b.
HStack(a, b) == [k \in 1..Len(a) |-> a[k] \o b[k]]

\* vbo.py CubeVBO.get_vertex_data: per vertex, texture coordinate (2),
\* normal (3), position (3).
CubeVertexData ==
    LET vertex_data == get_data(CubeVertices, CubeIndices)
        tex_coord_data == get_data(TexCoordVertices, TexCoordIndices)
        normals == Reshape3([f \in 1..Len(CubeNormals) |-> TupleTimes(CubeNormals[f], 6)], 36)
    IN  HStack(tex_coord_data, HStack(normals, vertex_data))

\* vbo.py SkyBoxVBO.get_vertex_data: the cube's positions with np.flip(.., 1),
\* which reverses the columns of every row.
SkyBoxVertexData ==
    LET vertex_data == get_data(CubeVertices, CubeIndices)
    IN  [k \in 1..Len(vertex_data) |->
            << vertex_data[k][3], vertex_data[k][2], vertex_data[k][1] >>]

\* Normalized device coordinates are kept in 1/NDC.
NDC == 100 * 100
\* vbo.py AdvancedSkyBoxVBO.get_vertex_data: z = 0.9999, in 1/NDC.
SKY_Z == 9999

\* A triangle that spans only the lower left half of the screen.
HalfScreenTriangle ==
    << <<-NDC, -NDC, SKY_Z>>, <<NDC, -NDC, SKY_Z>>, <<-NDC, NDC, SKY_Z>> >>

\* vbo.py AdvancedSkyBoxVBO.get_vertex_data: one triangle.
AdvancedSkyBoxVertexData ==
    << <<-NDC, -NDC, SKY_Z>>, <<3 * NDC, -NDC, SKY_Z>>, <<-NDC, 3 * NDC, SKY_Z>> >>

\* vbo.py BaseVBO.get_vbo: the data each buffer is built from; the cat's
\* comes from an .obj file that is read at startup.
get_vertex_data(name) ==
    CASE name = "cube" -> CubeVertexData
      [] name = "cat" -> << "objects/cat/20430_Cat_v1_NEW.obj" >>
      [] name = "skybox" -> SkyBoxVertexData
      [] name = "advanced_skybox" -> AdvancedSkyBoxVertexData

\* ------------------------------------------------------------------ state
VARIABLES
    pc,            \* position of the single thread of control
    missing,       \* the shader source files absent from shaders/
    shaderInputs,  \* the vertex inputs declared by each shader's source
    created,       \* GPU resources in the order they were created
    released,      \* GPU resources in the order they were released
    vbos,          \* VBO.vbos: name -> the vertex data held by the buffer
    vaos,          \* VAO.vaos: name -> vertex array
    time,          \* app.time, in quarter turns of the moving cube
    delta_time,    \* app.delta_time, in ms
    frame,         \* iterations of run()'s loop started so far
    camera,        \* app.camera
    objects,       \* scene.objects
    skybox,        \* scene.skybox
    program,       \* the uniforms of each shader program
    units,         \* the textures bound to the texture units
    target,        \* the framebuffer draw calls render into
    trace,         \* calls made so far in the current loop iteration
    writes,        \* uniform writes and texture bindings of the iteration
    lastDraw,      \* the latest draw call
    idx            \* loop index (shader loading, object loops)

vars ==
    << pc, vbos, missing, shaderInputs, created, released, vaos, time, delta_time,
       frame, camera, objects, skybox, program, units, target, trace, writes,
       lastDraw, idx >>

Evt(op, arg) == [op |-> op, arg |-> arg]

NoDraw == [pass |-> "none", obj |-> 0, vao |-> "none", target |-> "none"]

GpuState == [program |-> program, units |-> units, writes |-> writes]

Init ==
    /\ pc = "engine_init"
    /\ missing \in { {} } \cup { {f} : f \in ShaderFiles }
    /\ shaderInputs \in
          { [n \in SeqToSet(ShaderNames) |->
                IF n = "default" THEN {"in_texcoord_0", "in_normal", "in_position"}
                ELSE IF n = "shadow_map" THEN sm
                ELSE {"in_position"}] : sm \in InputSets }
    /\ created = <<>>
    /\ released = <<>>
    /\ vbos = <<>>
    /\ vaos = <<>>
    /\ time = 0
    /\ delta_time = 0
    /\ frame = 0
    /\ camera = CameraInit
    /\ objects = <<>>
    /\ skybox = NoSkyBox
    /\ program = [n \in SeqToSet(ShaderNames) |-> NewProgram]
    /\ units = [u \in {"unit0", "unit1"} |-> [t2d |-> "none", cube |-> "none"]]
    /\ target = "screen"
    /\ trace = <<>>
    /\ writes = <<>>
    /\ lastDraw = NoDraw
    /\ idx = 0

\* ----------------------------------------------------------- construction
\* main.py GraphicsEngine.__init__, lines 33-58: window and context, clock,
\* Light, Camera.
EngineInit ==
    /\ pc = "engine_init"
    /\ created' = Append(created, Res("context", "ctx"))
    /\ camera' = CameraInit
    /\ time' = 0
    /\ delta_time' = 0
    /\ pc' = "vbo_init"
    /\ UNCHANGED << vbos, missing, shaderInputs, released, vaos, frame, objects, skybox,
                    program, units, target, trace, writes, lastDraw, idx >>

\* vbo.py VBO.__init__ (called first by VAO.__init__): the four buffers.
VBOInit ==
    /\ pc = "vbo_init"
    /\ created' = created \o ResSeq("vbo", VboNames)
    /\ vbos' = [n \in SeqToSet(VboNames) |-> get_vertex_data(n)]
    /\ idx' = 1
    /\ pc' = "shader_init"
    /\ UNCHANGED << missing, shaderInputs, released, vaos, time, delta_time, frame,
                    camera, objects, skybox, program, units, target, trace,
                    writes, lastDraw >>

\* A loader that carries on when a file cannot be opened.
FileMissingIgnored(name) == FALSE
\* shader_program.py get_program: open() raises when a file is missing.
FileMissing(name) == \E i \in 1..2 : ShaderFilesOf(name)[i] \in missing

\* shader_program.py ShaderProgram.__init__: one get_program per step; the
\* exception of a missing file is caught nowhere up to the module level.
LoadShader ==
    /\ pc = "shader_init"
    /\ IF FileMissing(ShaderNames[idx])
       THEN /\ pc' = "crashed"
            /\ UNCHANGED << created, program, idx >>
       ELSE /\ created' = Append(created, Res("program", ShaderNames[idx]))
            /\ program' = [program EXCEPT ![ShaderNames[idx]] = NewProgram]
            /\ idx' = IF idx = Len(ShaderNames) THEN 0 ELSE idx + 1
            /\ pc' = IF idx = Len(ShaderNames) THEN "vao_init" ELSE "shader_init"
    /\ UNCHANGED << vbos, missing, shaderInputs, released, vaos, time, delta_time, frame,
                    camera, objects, skybox, units, target, trace, writes,
                    lastDraw >>

\* Whether the buffer's layout and the program's declared inputs differ.
LayoutMismatch(prog, vbo, inputs) == SeqToSet(VboAttribs(vbo)) # inputs[prog]

\* ctx.vertex_array(program, [(vbo, format, *attribs)]) without skip_errors:
\* an attribute the program does not declare is an error.
get_vao_strict(prog, vbo, inputs) ==
    [program |-> prog, vbo |-> vbo,
     attribs |-> SeqToSet(VboAttribs(vbo)) \cap inputs[prog],
     error |-> LayoutMismatch(prog, vbo, inputs)]

\* vao.py VAO.get_vao: ctx.vertex_array(..., skip_errors=True) binds the
\* attributes the program declares and skips the others without an error.
get_vao(prog, vbo, inputs) ==
    [program |-> prog, vbo |-> vbo,
     attribs |-> SeqToSet(VboAttribs(vbo)) \cap inputs[prog],
     error |-> FALSE]

\* vao.py VAO.__init__, lines 36-63: the six vertex arrays.
VAOInit ==
    /\ pc = "vao_init"
    /\ LET made == [i \in 1..Len(VaoTable) |->
                      get_vao(VaoTable[i][2], VaoTable[i][3], shaderInputs)]
           names == { VaoTable[i][1] : i \in 1..Len(VaoTable) }
           entry(n) == CHOOSE i \in 1..Len(VaoTable) : VaoTable[i][1] = n
       IN  IF \E i \in 1..Len(made) : made[i].error
           THEN /\ pc' = "crashed"
                /\ UNCHANGED << vaos, created >>
           ELSE /\ vaos' = [n \in names |-> made[entry(n)]]
                /\ created' = created \o
                      [i \in 1..Len(VaoTable) |-> Res("vao", VaoTable[i][1])]
                /\ pc' = "texture_init"
    /\ UNCHANGED << vbos, missing, shaderInputs, released, time, delta_time, frame, camera,
                    objects, skybox, program, units, target, trace, writes,
                    lastDraw, idx >>

\* mesh.py Mesh.__init__: Texture(app) creates the textures.
TextureInit ==
    /\ pc = "texture_init"
    /\ created' = created \o ResSeq("texture", TextureNames)
    /\ idx' = 1
    /\ pc' = "scene_init"
    /\ UNCHANGED << vbos, missing, shaderInputs, released, vaos, time, delta_time, frame,
                    camera, objects, skybox, program, units, target, trace,
                    writes, lastDraw >>

\* scene.py Scene.load: the next add(...) call constructs one object, whose
\* constructor runs its on_init.
SceneLoadStep ==
    /\ pc = "scene_init"
    /\ LET o == SceneLoad[idx]
           st == ApplyOps(GpuState, OnInitOps(o, vaos, camera), idx)
       IN  /\ objects' = Append(objects, o)
           /\ program' = st.program
           /\ units' = st.units
           /\ writes' = st.writes
    /\ idx' = IF idx = Len(SceneLoad) THEN 0 ELSE idx + 1
    /\ pc' = IF idx = Len(SceneLoad) THEN "skybox_init" ELSE "scene_init"
    /\ UNCHANGED << vbos, missing, shaderInputs, created, released, vaos, time, delta_time,
                    frame, camera, skybox, target, trace, lastDraw >>

\* scene.py Scene.__init__: self.skybox = AdvancedSkyBox(app).
SkyBoxInit ==
    /\ pc = "skybox_init"
    /\ LET st == ApplyOps(GpuState, SkyBoxOnInitOps(AdvancedSkyBox, vaos), 0)
       IN  /\ program' = st.program
           /\ units' = st.units
           /\ writes' = st.writes
    /\ skybox' = AdvancedSkyBox
    /\ pc' = "renderer_init"
    /\ UNCHANGED << vbos, missing, shaderInputs, created, released, vaos, time, delta_time,
                    frame, camera, objects, target, trace, lastDraw, idx >>

\* scene_renderer.py SceneRenderer.__init__: the depth framebuffer; then
\* main.py runs app.run().
SceneRendererInit ==
    /\ pc = "renderer_init"
    /\ created' = Append(created, Res("fbo", "depth_fbo"))
    /\ pc' = "get_time"
    /\ UNCHANGED << vbos, missing, shaderInputs, released, vaos, time, delta_time, frame,
                    camera, objects, skybox, program, units, target, trace,
                    writes, lastDraw, idx >>

\* --------------------------------------------------------------- teardown
\* A teardown that releases every vertex buffer a second time.
VBODestroyTwice == ResSeq("vbo", VboNames) \o ResSeq("vbo", VboNames)
\* vbo.py VBO.destroy: every buffer, in dictionary order.
VBODestroy == ResSeq("vbo", VboNames)
\* shader_program.py ShaderProgram.destroy: every program.
ProgramDestroy == ResSeq("program", ShaderNames)
\* The order the specification asks for: programs before the buffers.
\* vao.py VAO.destroy: self.vbo.destroy(), then self.program.destroy().
VAODestroy == VBODestroy \o ProgramDestroy
\* Texture.destroy (texture.py is not in src/): every texture.
TextureDestroy == ResSeq("texture", TextureNames)
\* mesh.py Mesh.destroy: self.vao.destroy(), then self.texture.destroy().
MeshDestroy == VAODestroy \o TextureDestroy
\* scene_renderer.py SceneRenderer.destroy: self.depth_fbo.release().
SceneRendererDestroy == << Res("fbo", "depth_fbo") >>
\* A teardown that destroys the context before the renderer's framebuffer.
QuitSequenceContextFirst ==
    MeshDestroy \o << Res("context", "ctx") >> \o SceneRendererDestroy
\* main.py check_events, lines 81-83: mesh.destroy(), scene_renderer
\* .destroy(), pg.quit() (which destroys the window and its context).
QuitSequence == MeshDestroy \o SceneRendererDestroy \o << Res("context", "ctx") >>

\* main.py check_events, line 79: the events that end the program.
IsQuit(e) == e = "QUIT" \/ e = "KEYDOWN_ESCAPE"

\* ------------------------------------------------------------- frame loop
\* A loop iteration that updates the scene before the camera.
FrameStepsSceneUpdateFirst ==
    << "get_time", "check_events", "scene_update", "camera_update", "ctx_clear",
       "shadow_begin", "shadow_loop", "main_begin", "color_loop", "skybox",
       "flip", "tick" >>
\* main.py run() and render(), scene_renderer.py render(): the statements of
\* one loop iteration, in program order.
FrameSteps ==
    << "get_time", "check_events", "camera_update", "ctx_clear", "scene_update",
       "shadow_begin", "shadow_loop", "main_begin", "color_loop", "skybox",
       "flip", "tick" >>

\* The statement that follows statement p (the loop wraps around).
NextPc(p) ==
    LET i == CHOOSE k \in 1..Len(FrameSteps) : FrameSteps[k] = p
    IN  IF i = Len(FrameSteps) THEN FrameSteps[1] ELSE FrameSteps[i + 1]

\* scene_renderer.py render_shadow: for obj in self.scene.objects.
ShadowLoopSkipLast(objs) == Len(objs) - 1
ShadowLoopLen(objs) == Len(objs)
\* scene_renderer.py main_render: for obj in self.scene.objects.
ColorLoopLen(objs) == Len(objs)

\* main.py get_time: the first statement of an iteration of run().
GetTime ==
    /\ pc = "get_time"
    /\ frame < MaxFrames
    /\ \E t \in {time, time + 1} : time' = t
    /\ frame' = frame + 1
    /\ trace' = << Evt("get_time", 0) >>
    /\ writes' = <<>>
    /\ lastDraw' = NoDraw
    /\ pc' = NextPc("get_time")
    /\ UNCHANGED << vbos, missing, shaderInputs, created, released, vaos, delta_time,
                    camera, objects, skybox, program, units, target, idx >>

\* main.py check_events: the first quit event releases everything and exits.
CheckEvents ==
    /\ pc = "check_events"
    /\ \E evs \in EventLists :
          IF \E i \in 1..Len(evs) : IsQuit(evs[i])
          THEN /\ released' = released \o QuitSequence
               /\ trace' = trace \o << Evt("check_events", 0), Evt("quit", 0) >>
               /\ pc' = "exited"
          ELSE /\ trace' = Append(trace, Evt("check_events", 0))
               /\ pc' = NextPc("check_events")
               /\ UNCHANGED released
    /\ UNCHANGED << vbos, missing, shaderInputs, created, vaos, time, delta_time, frame,
                    camera, objects, skybox, program, units, target, writes,
                    lastDraw, idx >>

\* camera.py Camera.update, called from run().
CameraUpdateStep ==
    /\ pc = "camera_update"
    /\ \E keys \in KeySets, rel \in MouseRels :
          camera' = CameraUpdate(camera, keys, rel, delta_time)
    /\ trace' = Append(trace, Evt("camera_update", 0))
    /\ pc' = NextPc("camera_update")
    /\ UNCHANGED << vbos, missing, shaderInputs, created, released, vaos, time, delta_time,
                    frame, objects, skybox, program, units, target, writes,
                    lastDraw, idx >>

\* main.py render(): self.ctx.clear(color=...).
CtxClear ==
    /\ pc = "ctx_clear"
    /\ trace' = Append(trace, Evt("ctx_clear", 0))
    /\ pc' = NextPc("ctx_clear")
    /\ UNCHANGED << vbos, missing, shaderInputs, created, released, vaos, time, delta_time,
                    frame, camera, objects, skybox, program, units, target,
                    writes, lastDraw, idx >>

\* scene.py Scene.update: self.moving_cube.rot.xyz = self.app.time.
SceneUpdate ==
    /\ pc = "scene_update"
    /\ objects' = [objects EXCEPT ![MovingCubeIndex(objects)].rot = <<time, time, time>>]
    /\ trace' = Append(trace, Evt("scene_update", 0))
    /\ pc' = NextPc("scene_update")
    /\ UNCHANGED << vbos, missing, shaderInputs, created, released, vaos, time, delta_time,
                    frame, camera, skybox, program, units, target, writes,
                    lastDraw, idx >>

\* A shadow pass that builds a new depth framebuffer every frame.
ShadowBeginRebuild ==
    /\ pc = "shadow_begin"
    /\ created' = Append(created, Res("fbo", "depth_fbo"))
    /\ target' = "depth_fbo"
    /\ trace' = trace \o << Evt("fbo_clear", 0), Evt("fbo_use", 0) >>
    /\ idx' = 1
    /\ pc' = IF ShadowLoopLen(objects) >= 1 THEN NextPc("shadow_begin")
             ELSE NextPc("shadow_loop")
    /\ UNCHANGED << vbos, missing, shaderInputs, released, vaos, time, delta_time,
                    frame, camera, objects, skybox, program, units, writes,
                    lastDraw >>

\* scene_renderer.py render_shadow: depth_fbo.clear(), depth_fbo.use().
ShadowBegin ==
    /\ pc = "shadow_begin"
    /\ target' = "depth_fbo"
    /\ trace' = trace \o << Evt("fbo_clear", 0), Evt("fbo_use", 0) >>
    /\ idx' = 1
    /\ pc' = IF ShadowLoopLen(objects) >= 1 THEN NextPc("shadow_begin")
             ELSE NextPc("shadow_loop")
    /\ UNCHANGED << vbos, missing, shaderInputs, created, released, vaos, time, delta_time,
                    frame, camera, objects, skybox, program, units, writes,
                    lastDraw >>

\* scene_renderer.py render_shadow: obj.render_shadow() of the next object
\* (model.py render_shadow: update_shadow(), shadow_vao.render()).
ShadowDraw ==
    /\ pc = "shadow_loop"
    /\ LET o == objects[idx]
           st == ApplyOps(GpuState, UpdateShadowOps(o, vaos), idx)
       IN  /\ program' = st.program
           /\ units' = st.units
           /\ writes' = st.writes
           /\ lastDraw' = [pass |-> "shadow", obj |-> idx,
                           vao |-> "shadow_" \o o.vao_name, target |-> target]
    /\ trace' = Append(trace, Evt("shadow_draw", idx))
    /\ idx' = idx + 1
    /\ pc' = IF idx >= ShadowLoopLen(objects) THEN NextPc("shadow_loop")
             ELSE "shadow_loop"
    /\ UNCHANGED << vbos, missing, shaderInputs, created, released, vaos, time, delta_time,
                    frame, camera, objects, skybox, target >>

\* A color pass that leaves the render target as the shadow pass set it.
MainBeginKeepTarget ==
    /\ pc = "main_begin"
    /\ trace' = Append(trace, Evt("screen_use", 0))
    /\ idx' = 1
    /\ pc' = IF ColorLoopLen(objects) >= 1 THEN NextPc("main_begin")
             ELSE NextPc("color_loop")
    /\ UNCHANGED << vbos, missing, shaderInputs, created, released, vaos, time,
                    delta_time, frame, camera, objects, skybox, program, units,
                    writes, lastDraw, target >>

\* scene_renderer.py main_render: self.app.ctx.screen.use().
MainBegin ==
    /\ pc = "main_begin"
    /\ target' = "screen"
    /\ trace' = Append(trace, Evt("screen_use", 0))
    /\ idx' = 1
    /\ pc' = IF ColorLoopLen(objects) >= 1 THEN NextPc("main_begin")
             ELSE NextPc("color_loop")
    /\ UNCHANGED << vbos, missing, shaderInputs, created, released, vaos, time, delta_time,
                    frame, camera, objects, skybox, program, units, writes,
                    lastDraw >>

\* scene_renderer.py main_render: obj.render() of the next object
\* (model.py BaseModel.render: update(), vao.render()).
ColorDraw ==
    /\ pc = "color_loop"
    /\ LET o == UpdateObject(objects[idx])
           st == ApplyOps(GpuState, UpdateOps(o, vaos, camera), idx)
       IN  /\ objects' = [objects EXCEPT ![idx] = o]
           /\ program' = st.program
           /\ units' = st.units
           /\ writes' = st.writes
           /\ lastDraw' = [pass |-> "color", obj |-> idx, vao |-> o.vao_name,
                           target |-> target]
    /\ trace' = Append(trace, Evt("color_draw", idx))
    /\ idx' = idx + 1
    /\ pc' = IF idx >= ColorLoopLen(objects) THEN NextPc("color_loop")
             ELSE "color_loop"
    /\ UNCHANGED << vbos, missing, shaderInputs, created, released, vaos, time, delta_time,
                    frame, camera, skybox, target >>

\* scene_renderer.py main_render: self.scene.skybox.render().
SkyboxDraw ==
    /\ pc = "skybox"
    /\ LET st == ApplyOps(GpuState, SkyBoxUpdateOps(skybox, vaos, camera), 0)
       IN  /\ program' = st.program
           /\ units' = st.units
           /\ writes' = st.writes
    /\ lastDraw' = [pass |-> "color", obj |-> 0, vao |-> skybox.vao_name,
                    target |-> target]
    /\ trace' = Append(trace, Evt("skybox_draw", 0))
    /\ pc' = NextPc("skybox")
    /\ UNCHANGED << vbos, missing, shaderInputs, created, released, vaos, time, delta_time,
                    frame, camera, objects, skybox, target, idx >>

\* main.py render(): pg.display.flip().
Flip ==
    /\ pc = "flip"
    /\ trace' = Append(trace, Evt("flip", 0))
    /\ pc' = NextPc("flip")
    /\ UNCHANGED << vbos, missing, shaderInputs, created, released, vaos, time, delta_time,
                    frame, camera, objects, skybox, program, units, target,
                    writes, lastDraw, idx >>

\* main.py run(): self.delta_time = self.clock.tick(60).
Tick ==
    /\ pc = "tick"
    /\ \E dt \in DeltaTimes : delta_time' = dt
    /\ trace' = Append(trace, Evt("tick", 0))
    /\ pc' = NextPc("tick")
    /\ UNCHANGED << vbos, missing, shaderInputs, created, released, vaos, time, frame,
                    camera, objects, skybox, program, units, target, writes,
                    lastDraw, idx >>

Next ==
    \/ EngineInit
    \/ VBOInit
    \/ LoadShader
    \/ VAOInit
    \/ TextureInit
    \/ SceneLoadStep
    \/ SkyBoxInit
    \/ SceneRendererInit
    \/ GetTime
    \/ CheckEvents
    \/ CameraUpdateStep
    \/ CtxClear
    \/ SceneUpdate
    \/ ShadowBegin
    \/ ShadowDraw
    \/ MainBegin
    \/ ColorDraw
    \/ SkyboxDraw
    \/ Flip
    \/ Tick

Spec == Init /\ [][Next]_vars

\* ---------------------------------------------------- classes in isolation
\* A second specification constructs one Camera, one MovingCube and one
\* SkyBox from constructor arguments drawn from the sets below, then changes
\* the cube's rotation or updates the camera, then updates the objects.

\* camera.py Camera.__init__(app, position, yaw, pitch): the basis keeps its
\* defaults until the first update.
CameraNew(position, yaw, pitch) ==
    LET c0 == [CameraInit EXCEPT !.position = position, !.yaw = yaw, !.pitch = pitch]
    IN  [c0 EXCEPT !.m_view = get_view_matrix(c0)]

UnitCameraPositions ==
    { <<0, 0, 4 * POS_UNIT>>, <<0, 0, 0>>, <<3 * POS_UNIT, -2 * POS_UNIT, 5 * POS_UNIT>> }
UnitCameraPitches == { 0, 29 * COUNTS_PER_DEGREE }
UnitModelPositions == { <<0, 6, 8>>, <<-3, 0, 2>> }
UnitScales == { <<1, 1, 1>>, <<3, 2, 1>> }
\* Rotations in quarter turns about x, y and z.
UnitRotations ==
    { <<x, y, z>> : x \in (-1)..MAX_QUARTER, y \in (-1)..MAX_QUARTER,
                    z \in (-1)..MAX_QUARTER }
UnitInitialRotations == { <<0, 0, 0>>, <<-1, 0, 0>>, <<1, 2, -1>> }

\* vao.py VAO.__init__: the vertex arrays of a Mesh whose shaders all load.
UnitVaos(inputs) ==
    LET entry(n) == CHOOSE i \in 1..Len(VaoTable) : VaoTable[i][1] = n
    IN  [n \in { VaoTable[i][1] : i \in 1..Len(VaoTable) } |->
            get_vao(VaoTable[entry(n)][2], VaoTable[entry(n)][3], inputs)]

UnitInit ==
    /\ pc = "unit_construct"
    /\ missing = {}
    /\ shaderInputs =
          [n \in SeqToSet(ShaderNames) |->
              IF n = "default" THEN {"in_texcoord_0", "in_normal", "in_position"}
              ELSE {"in_position"}]
    /\ created = <<>>
    /\ released = <<>>
    /\ vbos = [n \in SeqToSet(VboNames) |-> get_vertex_data(n)]
    /\ vaos = UnitVaos(shaderInputs)
    /\ time = 0
    /\ delta_time \in DeltaTimes
    /\ frame = 0
    /\ camera \in { CameraNew(p, -90 * COUNTS_PER_DEGREE, pt) :
                      p \in UnitCameraPositions, pt \in UnitCameraPitches }
    /\ objects = <<>>
    /\ skybox = NoSkyBox
    /\ program = [n \in SeqToSet(ShaderNames) |-> NewProgram]
    /\ units = [u \in {"unit0", "unit1"} |-> [t2d |-> "none", cube |-> "none"]]
    /\ target = "screen"
    /\ trace = <<>>
    /\ writes = <<>>
    /\ lastDraw = NoDraw
    /\ idx = 0

\* model.py BaseModel.__init__ (Cube, MovingCube) and SkyBox.__init__, which
\* runs SkyBox.on_init.
UnitConstruct ==
    /\ pc = "unit_construct"
    /\ \E pos \in UnitModelPositions, rot \in UnitInitialRotations, scale \in UnitScales :
          objects' = << BaseModel("MovingCube", "cube", "1", pos, rot, scale) >>
    /\ skybox' = SkyBox
    /\ LET st == ApplyOps(GpuState, BasicSkyBoxOnInitOps(SkyBox, vaos, camera), 0)
       IN  /\ program' = st.program
           /\ units' = st.units
           /\ writes' = st.writes
    /\ pc' = "unit_input"
    /\ UNCHANGED << vbos, missing, shaderInputs, created, released, vaos, time,
                    delta_time, frame, camera, target, trace, lastDraw, idx >>

\* scene.py Scene.update: the cube's rotation is assigned.
UnitSetRotation ==
    /\ pc = "unit_input"
    /\ \E rot \in UnitRotations : objects' = [objects EXCEPT ![1].rot = rot]
    /\ pc' = "unit_update"
    /\ UNCHANGED << vbos, missing, shaderInputs, created, released, vaos, time,
                    delta_time, frame, camera, skybox, program, units, target,
                    trace, writes, lastDraw, idx >>

\* camera.py Camera.update
UnitCameraUpdate ==
    /\ pc = "unit_input"
    /\ \E keys \in KeySets, rel \in MouseRels :
          camera' = CameraUpdate(camera, keys, rel, delta_time)
    /\ pc' = "unit_update"
    /\ UNCHANGED << vbos, missing, shaderInputs, created, released, vaos, time,
                    delta_time, frame, objects, skybox, program, units, target,
                    trace, writes, lastDraw, idx >>

\* model.py MovingCube.update (as far as the object goes) and SkyBox.update.
UnitUpdate ==
    /\ pc = "unit_update"
    /\ objects' = [objects EXCEPT ![1] = UpdateObject(objects[1])]
    /\ LET st == ApplyOps(GpuState, BasicSkyBoxUpdateOps(skybox, vaos, camera), 0)
       IN  /\ program' = st.program
           /\ units' = st.units
           /\ writes' = st.writes
    /\ pc' = "unit_done"
    /\ UNCHANGED << vbos, missing, shaderInputs, created, released, vaos, time,
                    delta_time, frame, camera, skybox, target, trace, lastDraw,
                    idx >>

UnitNext ==
    \/ UnitConstruct
    \/ UnitSetRotation
    \/ UnitCameraUpdate
    \/ UnitUpdate

UnitSpec == UnitInit /\ [][UnitNext]_vars

\* ------------------------------------------------------------ properties
IsPrefix(a, b) == Len(a) <= Len(b) /\ \A i \in 1..Len(a) : a[i] = b[i]

Pos(q, x) == CHOOSE i \in 1..Len(q) : q[i] = x

IsDraw(e) == e.op \in {"shadow_draw", "color_draw", "skybox_draw"}

\* The draw calls of the current loop iteration, in order.
DrawCalls == SelectSeq(trace, IsDraw)

\* N shadow draws (objects 1..N), N color draws (objects 1..N), the skybox.
ExpectedDraws(n) ==
    [i \in 1..(2 * n + 1) |->
        IF i <= n THEN Evt("shadow_draw", i)
        ELSE IF i <= 2 * n THEN Evt("color_draw", i - n)
        ELSE Evt("skybox_draw", 0)]

\* Whether SceneRenderer.render() of the current iteration has returned.
RenderDone == frame >= 1 /\ pc \in {"flip", "tick", "get_time"}

\* C1: in every frame the draw calls are exactly one shadow draw per scene
\* object (in order), then one color draw per scene object, then the skybox,
\* once and last; so all N shadow draws precede every color draw and the
\* skybox is never drawn in the shadow pass.
C1_TwoPassOrder ==
    /\ IsPrefix(DrawCalls, ExpectedDraws(Len(objects)))
    /\ RenderDone => DrawCalls = ExpectedDraws(Len(objects))
    /\ lastDraw.pass = "shadow" => lastDraw.obj \in 1..Len(objects)

C1_Witness ==
    /\ pc = "flip"
    /\ frame = MaxFrames
    /\ Len(DrawCalls) = 2 * Len(objects) + 1
    /\ DrawCalls[Len(objects) + 1] = Evt("color_draw", 1)

IsOfSrc(r) == r[1] # "texture"

\* The releases of the resources that src/ creates (all but the textures).
SrcReleased == SelectSeq(released, IsOfSrc)

\* C2 (as claimed): at shutdown the resources are released in reverse order
\* of their creation; every program is released before every vertex buffer
\* a vertex array binds it to, and the depth framebuffer is released before
\* the resources created before it.
C2_ReverseOfCreation ==
    pc = "exited" =>
        /\ \A i, j \in 1..Len(SrcReleased) :
              i < j => Pos(created, SrcReleased[i]) > Pos(created, SrcReleased[j])
        /\ \A n \in DOMAIN vaos :
              Pos(SrcReleased, Res("program", vaos[n].program))
                 < Pos(SrcReleased, Res("vbo", vaos[n].vbo))
        /\ \A k \in 1..Len(SrcReleased) :
              Pos(created, SrcReleased[k]) < Pos(created, Res("fbo", "depth_fbo"))
                 => Pos(SrcReleased, Res("fbo", "depth_fbo")) < k

IsReleased(r) == r \in SeqToSet(released)

\* C3: the depth framebuffer is released only when the program has
\* processed a quit event and stopped; in that iteration no draw call
\* follows the quit event, and the release of the framebuffer comes before
\* the destruction of the context.
C3_FramebufferReleasedAtExit ==
    /\ IsReleased(Res("fbo", "depth_fbo")) => pc = "exited"
    /\ IsReleased(Res("context", "ctx")) => IsReleased(Res("fbo", "depth_fbo"))
    /\ pc = "exited" =>
          /\ Pos(released, Res("fbo", "depth_fbo")) < Pos(released, Res("context", "ctx"))
          /\ trace[Len(trace)] = Evt("quit", 0)
          /\ DrawCalls = <<>>
          /\ lastDraw = NoDraw

C3_Witness ==
    /\ pc = "exited"
    /\ frame = MaxFrames
    /\ IsReleased(Res("fbo", "depth_fbo"))

IsFrameStep(e) ==
    e.op \in {"check_events", "camera_update", "scene_update", "shadow_draw",
              "color_draw", "skybox_draw", "flip"}

\* The steps of a frame in the order of claim C4.
ExpectedFrameSteps(n) ==
    << Evt("check_events", 0), Evt("camera_update", 0), Evt("scene_update", 0) >>
        \o ExpectedDraws(n) \o << Evt("flip", 0) >>

\* C4: the steps of every frame come in the order event polling,
\* Camera.update, Scene.update, shadow pass over all objects, color pass
\* over all objects and the skybox, buffer swap; none is skipped or repeated.
C4_FrameStepOrder ==
    /\ IsPrefix(SelectSeq(trace, IsFrameStep), ExpectedFrameSteps(Len(objects)))
    /\ (frame >= 1 /\ pc \in {"tick", "get_time"}) =>
          SelectSeq(trace, IsFrameStep) = ExpectedFrameSteps(Len(objects))

C4_Witness ==
    /\ pc = "tick"
    /\ frame = MaxFrames
    /\ Len(SelectSeq(trace, IsFrameStep)) = 2 * Len(objects) + 5

\* C5: the camera pitch is within [-89, 89] degrees in every state, so
\* after every Camera.update, and clamping it again leaves it unchanged.
C5_PitchClamped ==
    /\ camera.pitch >= -(PITCH_LIMIT * COUNTS_PER_DEGREE)
    /\ camera.pitch <= PITCH_LIMIT * COUNTS_PER_DEGREE
    /\ ClampPitch(camera.pitch) = camera.pitch

C5_Witness ==
    /\ frame = MaxFrames
    /\ pc = "ctx_clear"
    /\ camera.pitch = -(PITCH_LIMIT * COUNTS_PER_DEGREE)

KeySign(keys, plus, minus) ==
    (IF plus \in keys THEN 1 ELSE 0) - (IF minus \in keys THEN 1 ELSE 0)

\* The displacement of one update along the basis (forward, right, up) of
\* camera c for the held keys.
Displacement(c, keys, dt) ==
    VAdd(VAdd(VScale(c.forward, dt * KeySign(keys, "w", "s")),
              VScale(c.right, dt * KeySign(keys, "d", "a"))),
         VScale(c.up, dt * KeySign(keys, "q", "e")))

\* C6 (as claimed): the translation of an update is along the basis vectors
\* derived from the yaw and pitch of that same update.
C6_MoveAlongNewBasis ==
    [][pc = "camera_update" =>
          \E keys \in KeySets :
             camera'.position = VAdd(camera.position, Displacement(camera', keys, delta_time))]_vars

\* C6 (amended): Camera.update moves first, then rotates, re-derives the
\* basis and recomputes the view matrix: the translation of an update is
\* along the basis vectors the camera held before the update, and after the
\* update the basis and the view matrix are those of the new yaw and pitch.
C6_MoveAlongOldBasis ==
    [][pc = "camera_update" =>
          /\ \E keys \in KeySets :
                camera'.position = VAdd(camera.position, Displacement(camera, keys, delta_time))
          /\ camera'.forward = update_camera_vectors(camera').forward
          /\ camera'.right = update_camera_vectors(camera').right
          /\ camera'.up = update_camera_vectors(camera').up
          /\ camera'.m_view = get_view_matrix(camera')]_vars

C6_Witness ==
    /\ frame = 2
    /\ pc = "ctx_clear"
    /\ camera.yaw = 90 * COUNTS_PER_DEGREE
    /\ camera.position # <<0, 0, 4 * POS_UNIT>>

\* C7 (as claimed): at every draw call of an object, in the shadow pass and
\* in the color pass, the model matrix held by the program that draws is the
\* matrix of the object's current position, rotation and scale.
C7_ModelMatrixCurrent ==
    /\ lastDraw.pass = "shadow" =>
          program[vaos[lastDraw.vao].program].m_model
             = get_model_matrix(objects[lastDraw.obj])
    /\ (lastDraw.pass = "color" /\ lastDraw.obj >= 1) =>
          program[vaos[lastDraw.vao].program].m_model
             = get_model_matrix(objects[lastDraw.obj])

\* The uniform writes of the current frame issued by the scene objects.
LitUniformWrites ==
    { writes[i] : i \in { k \in 1..Len(writes) :
                            writes[k].obj >= 1 /\ writes[k].kind = "uniform" } }

LitTextureBinds ==
    { writes[i] : i \in { k \in 1..Len(writes) :
                            writes[k].obj >= 1 /\ writes[k].kind = "texture" } }

\* The uniforms written once at construction.
StaticUniformsKept ==
    /\ program["default"].m_proj = get_projection_matrix
    /\ program["default"].m_view_light = LightViewMatrix
    /\ program["default"].shadowMap = 1
    /\ program["default"].u_texture_0 = 0
    /\ program["shadow_map"].m_proj = get_projection_matrix
    /\ program["shadow_map"].m_view_light = LightViewMatrix
    /\ units["unit1"].t2d = "depth_texture"

\* C8 (as claimed): in a frame a lit object writes only the model and view
\* matrix of its color program and the model matrix of its shadow program.
C8_OnlyModelAndView ==
    frame >= 1 =>
        /\ \A w \in LitUniformWrites :
              <<w.prog, w.name>> \in { <<"default", "m_model">>, <<"default", "m_view">>,
                                       <<"shadow_map", "m_model">> }
        /\ StaticUniformsKept

\* C8 (amended): in a frame a lit object writes only the model matrix, the
\* view matrix and the camera position (camPos) of its color program and
\* the model matrix of its shadow program, and binds its own albedo texture
\* to unit 0; the projection matrix, the light-space view matrix and the
\* sampler slot assignments stay as written at construction.
C8_ModelViewAndCamPos ==
    frame >= 1 =>
        /\ \A w \in LitUniformWrites :
              <<w.prog, w.name>> \in { <<"default", "m_model">>, <<"default", "m_view">>,
                                       <<"default", "camPos">>,
                                       <<"shadow_map", "m_model">> }
        /\ \A w \in LitTextureBinds :
              w.name = "unit0" /\ w.prog = objects[w.obj].tex_id
        /\ StaticUniformsKept

C8_Witness ==
    /\ pc = "flip"
    /\ frame = MaxFrames
    /\ \E w \in LitUniformWrites : w.name = "camPos" /\ w.obj = Len(objects)
    /\ \E w \in LitUniformWrites : w.prog = "shadow_map" /\ w.obj = 1

C10_MissingShaderIsFatal ==
    missing # {} =>
        /\ pc \in {"engine_init", "vbo_init", "shader_init", "crashed"}
        /\ frame = 0
        /\ trace = <<>>
        /\ lastDraw = NoDraw
        /\ objects = <<>>
        /\ vaos = <<>>
        /\ \A i \in 1..Len(created) : created[i][1] \in {"context", "vbo", "program"}
        /\ \A i, j \in 1..Len(created) : created[i] = created[j] => i = j
        /\ \A f \in missing : Res("program", f[1]) \notin SeqToSet(created)

C10_Witness ==
    /\ pc = "crashed"
    /\ missing = { <<"shadow_map", "frag">> }
    /\ Res("program", "advanced_skybox") \in SeqToSet(created)

\* How many times resource r appears in the release log.
ReleaseCount(r) == Cardinality({ k \in 1..Len(released) : released[k] = r })

\* Whether vertex array n has been drawn through since the iteration began.
DrawnThrough(n) == lastDraw.vao = n

\* C11: no vertex buffer is ever released twice; a run that ends by a quit
\* event has released each of the four vertex buffers exactly once; and once
\* a vertex buffer is released the program has stopped, with no draw call
\* through any vertex array that references the buffer after the release.
C11_VboReleasedOnce ==
    \A i \in 1..Len(VboNames) :
        LET b == Res("vbo", VboNames[i])
        IN  /\ ReleaseCount(b) <= 1
            /\ pc = "exited" => ReleaseCount(b) = 1
            /\ ReleaseCount(b) = 1 =>
                  /\ pc = "exited"
                  /\ b \in SeqToSet(created)
                  /\ trace[Len(trace)] = Evt("quit", 0)
                  /\ \A n \in DOMAIN vaos :
                        vaos[n].vbo = VboNames[i] => ~DrawnThrough(n)

C11_Witness ==
    /\ pc = "exited"
    /\ frame = MaxFrames
    /\ \A i \in 1..Len(VboNames) : ReleaseCount(Res("vbo", VboNames[i])) = 1

\* How many times resource r appears in the creation log.
CreateCount(r) == Cardinality({ k \in 1..Len(created) : created[k] = r })

\* How many times operation op appears in the iteration's call log.
CallCount(op) == Cardinality({ k \in 1..Len(trace) : trace[k].op = op })

InLoop == pc \in SeqToSet(FrameSteps) \/ pc = "exited"

\* C12: the depth framebuffer is created exactly once, by
\* SceneRenderer.__init__, as the last resource of construction; no frame
\* creates a framebuffer or any other resource (so neither the framebuffer
\* nor the depth texture attached to it is ever replaced), and a frame
\* clears and binds the framebuffer once.
C12_DepthFboCreatedOnce ==
    /\ CreateCount(Res("fbo", "depth_fbo")) <= 1
    /\ InLoop =>
          /\ CreateCount(Res("fbo", "depth_fbo")) = 1
          /\ created[Len(created)] = Res("fbo", "depth_fbo")
          /\ CallCount("fbo_clear") <= 1
          /\ CallCount("fbo_use") = CallCount("fbo_clear")
    /\ ~InLoop => CreateCount(Res("fbo", "depth_fbo")) = 0
    /\ RenderDone => CallCount("fbo_clear") = 1

C12_Witness ==
    /\ pc = "flip"
    /\ frame = MaxFrames
    /\ CreateCount(Res("fbo", "depth_fbo")) = 1
    /\ CallCount("fbo_clear") = 1

\* pg.key.get_pressed() with only the up key (q) or only the down key (e) held.
UpDownKeySets == { {"q"}, {"e"} }

\* C13 (as claimed): in every state the camera can be in, a move with only
\* the up key or only the down key held, for a frame time that is not zero,
\* changes the y coordinate of the position and leaves x and z as they were.
C13_ElevatorMove ==
    \A keys \in UpDownKeySets, dt \in DeltaTimes :
        LET p == move(camera, keys, dt).position
        IN  /\ p[1] = camera.position[1]
            /\ p[3] = camera.position[3]
            /\ p[2] # camera.position[2]

\* The rows of the cube buffer: texture coordinate, normal, position.
CubeRows == vbos["cube"]
RowNormal(k) == SubSeq(CubeRows[k], 3, 5)
RowPosition(k) == SubSeq(CubeRows[k], 6, 8)

\* The corners of triangle t (1..12) of the cube buffer.
TriangleCorners(t) ==
    { RowPosition(3 * t - 2), RowPosition(3 * t - 1), RowPosition(3 * t) }

\* C16: the cube buffer holds 36 vertices, vertex k being the corner that
\* the index table names for it; every index is within the table of the 8
\* distinct corners, each of the 12 triangles has 3 distinct corners, all of
\* them corners of the table, and together the triangles use all 8 corners.
C16_CubeIndexTable ==
    vbos # <<>> =>
        /\ Len(CubeRows) = 36
        /\ Len(CubeIndices) = 12
        /\ Cardinality(SeqToSet(CubeVertices)) = 8
        /\ \A t \in 1..12 :
              /\ \A c \in 1..3 :
                    /\ CubeIndices[t][c] \in 0..7
                    /\ RowPosition(3 * (t - 1) + c) = CubeVertices[CubeIndices[t][c] + 1]
              /\ Cardinality(TriangleCorners(t)) = 3
              /\ TriangleCorners(t) \subseteq SeqToSet(CubeVertices)
        /\ UNION { TriangleCorners(t) : t \in 1..12 } = SeqToSet(CubeVertices)

C16_Witness ==
    /\ lastDraw.vao = "cube"
    /\ Len(vbos["cube"]) = 36
    /\ Cardinality(UNION { TriangleCorners(t) : t \in 1..12 }) = 8

\* The cross product of integer vectors.
IntCross(a, b) ==
    << a[2] * b[3] - a[3] * b[2], a[3] * b[1] - a[1] * b[3],
       a[1] * b[2] - a[2] * b[1] >>

\* The winding of triangle t: the cross product of its two edges from the
\* first corner.
Winding(t) ==
    IntCross(VSub(RowPosition(3 * t - 1), RowPosition(3 * t - 2)),
             VSub(RowPosition(3 * t), RowPosition(3 * t - 2)))

\* Whether n is a unit vector along one coordinate axis.
IsAxisNormal(n) == Cardinality({ a \in 1..3 : n[a] # 0 }) = 1 /\ Dot(n, n) = 1

\* C20: in the cube buffer the three vertices of every triangle carry the
\* same axis normal, all three corners lie on the face of the cube the
\* normal points to, and the winding of the triangle is a positive multiple
\* of the normal; face f (vertices 6f-5..6f) carries the f-th of the six
\* normals, and the six normals are distinct.
C20_CubeNormalsAgree ==
    vbos # <<>> =>
        /\ \A t \in 1..12 :
              LET n == RowNormal(3 * t - 2)
              IN  /\ IsAxisNormal(n)
                  /\ RowNormal(3 * t - 1) = n
                  /\ RowNormal(3 * t) = n
                  /\ \A c \in 1..3 : Dot(RowPosition(3 * (t - 1) + c), n) = 1
                  /\ Dot(Winding(t), n) > 0
                  /\ IntCross(Winding(t), n) = <<0, 0, 0>>
        /\ \A f \in 1..6 : \A k \in (6 * f - 5)..(6 * f) : RowNormal(k) = CubeNormals[f]
        /\ Cardinality({ RowNormal(k) : k \in 1..36 }) = 6

C20_Witness ==
    /\ lastDraw.vao = "shadow_cube"
    /\ Len(vbos["cube"]) = 36
    /\ Winding(3) = <<4, 0, 0>>
    /\ RowNormal(7) = <<1, 0, 0>>

\* The points of the normalized-device square on a grid of GRID_N steps a
\* side, corners included, in 1/NDC.
GridPoints ==
    { << -NDC + ((2 * NDC * i) \div GRID_N), -NDC + ((2 * NDC * j) \div GRID_N) >> :
        i \in 0..GRID_N, j \in 0..GRID_N }

\* Twice the signed area of (a, b, p): positive when p is left of a -> b.
EdgeFunction(a, b, p) ==
    (b[1] - a[1]) * (p[2] - a[2]) - (b[2] - a[2]) * (p[1] - a[1])

\* Whether p is inside or on the edge of the counter-clockwise triangle tri.
InTriangle(tri, p) ==
    /\ EdgeFunction(tri[1], tri[2], p) >= 0
    /\ EdgeFunction(tri[2], tri[3], p) >= 0
    /\ EdgeFunction(tri[3], tri[1], p) >= 0

\* C17: the advanced skybox buffer holds one triangle with corners (-1,-1),
\* (3,-1), (-1,3) at z = 0.9999, and every grid point of the square
\* [-1,1] x [-1,1], its four corners included, is inside or on the edge of it.
C17_FullscreenTriangle ==
    vbos # <<>> =>
        LET tri == vbos["advanced_skybox"]
        IN  /\ Len(tri) = 3
            /\ \A k \in 1..3 : tri[k][3] = SKY_Z
            /\ EdgeFunction(tri[1], tri[2], tri[3]) > 0
            /\ \A p \in GridPoints : InTriangle(tri, p)
            /\ { <<x, y>> : x, y \in {-NDC, NDC} } \subseteq GridPoints

C17_Witness ==
    /\ lastDraw.vao = "advanced_skybox"
    /\ Len(vbos["advanced_skybox"]) = 3
    /\ InTriangle(vbos["advanced_skybox"], <<NDC, NDC>>)
    /\ EdgeFunction(vbos["advanced_skybox"][2], vbos["advanced_skybox"][3], <<NDC, NDC>>) = 0

\* The matrices of the single transforms.
TranslationOf(v) == Translate(IdentityOf(1), v)
RotationZOf(q) == RotateZ(IdentityOf(1), q)
RotationYOf(q) == RotateY(IdentityOf(1), q)
RotationXOf(q) == RotateX(IdentityOf(1), q)
ScalingOf(v) == Scale(IdentityOf(1), v)

\* translate(pos) . rotateZ . rotateY . rotateX . scale(scale), composed
\* from the right.
ReferenceModelMatrix(pos, rot, scale) ==
    MatMul(TranslationOf(pos),
           MatMul(RotationZOf(rot[3]),
                  MatMul(RotationYOf(rot[2]),
                         MatMul(RotationXOf(rot[1]), ScalingOf(scale)))))

\* The same with rotateX and rotateZ exchanged.
SwappedModelMatrix(pos, rot, scale) ==
    MatMul(TranslationOf(pos),
           MatMul(RotationXOf(rot[1]),
                  MatMul(RotationYOf(rot[2]),
                         MatMul(RotationZOf(rot[3]), ScalingOf(scale)))))

\* Whether the object's matrix has been computed since its transform was
\* last assigned (by its constructor or by its update).
UnitFresh == pc \in {"unit_input", "unit_done"}

IsOdd(q) == q % 2 = 1

\* C14: a model matrix computed by the constructor or by update is
\* translate(pos) . rotateZ . rotateY . rotateX . scale(scale) for the
\* object's position, rotation and scale; get_model_matrix gives that
\* composition for every rotation; and with a rotation of an odd number of
\* quarter turns about x and about z it differs from the composition with
\* rotateX and rotateZ exchanged.
C14_ModelMatrixOrder ==
    UnitFresh =>
        LET o == objects[1]
        IN  /\ o.m_model = ReferenceModelMatrix(o.pos, o.rot, o.scale)
            /\ get_model_matrix(o) = ReferenceModelMatrix(o.pos, o.rot, o.scale)
            /\ (IsOdd(o.rot[1]) /\ IsOdd(o.rot[3])) =>
                  o.m_model # SwappedModelMatrix(o.pos, o.rot, o.scale)

C14_Witness ==
    /\ pc = "unit_done"
    /\ objects[1].rot = <<1, 2, -1>>
    /\ objects[1].pos = <<-3, 0, 2>>
    /\ objects[1].scale = <<3, 2, 1>>
    /\ objects[1].m_model # SwappedModelMatrix(<<-3, 0, 2>>, <<1, 2, -1>>, <<3, 2, 1>>)

\* The upper-left 3x3 block of a 4x4 matrix.
Block3(m) ==
    << <<m[1][1], m[1][2], m[1][3]>>, <<m[2][1], m[2][2], m[2][3]>>,
       <<m[3][1], m[3][2], m[3][3]>> >>

IsTargetOrDraw(e) ==
    e.op \in {"fbo_clear", "fbo_use", "screen_use", "shadow_draw", "color_draw",
              "skybox_draw"}

\* The clears, target bindings and draws of a frame of n objects.
ExpectedPasses(n) ==
    << Evt("fbo_clear", 0), Evt("fbo_use", 0) >>
        \o [i \in 1..n |-> Evt("shadow_draw", i)]
        \o << Evt("screen_use", 0) >>
        \o [i \in 1..n |-> Evt("color_draw", i)]
        \o << Evt("skybox_draw", 0) >>

\* C18: in a frame the depth framebuffer is cleared and bound before the
\* first shadow draw, the screen is bound after the last shadow draw and
\* before the first color draw, and no other binding happens; every shadow
\* draw is issued with the depth framebuffer as the render target, every
\* color draw and the skybox draw with the screen.
C18_RenderTargetPerPass ==
    /\ IsPrefix(SelectSeq(trace, IsTargetOrDraw), ExpectedPasses(Len(objects)))
    /\ lastDraw.pass = "shadow" => lastDraw.target = "depth_fbo"
    /\ lastDraw.pass = "color" => lastDraw.target = "screen"
    /\ pc = "shadow_loop" => target = "depth_fbo"
    /\ pc \in {"color_loop", "skybox"} => target = "screen"
    /\ RenderDone => SelectSeq(trace, IsTargetOrDraw) = ExpectedPasses(Len(objects))

C18_Witness ==
    /\ pc = "flip"
    /\ frame = MaxFrames
    /\ lastDraw = [pass |-> "color", obj |-> 0, vao |-> "advanced_skybox",
                   target |-> "screen"]
    /\ Len(SelectSeq(trace, IsTargetOrDraw)) = 2 * Len(objects) + 4

\* C19: when a scene object's color draw is issued, the m_model uniform of
\* its program holds the object's own model matrix (its m_model attribute)
\* and texture unit 0 holds the object's own texture; when its shadow draw
\* is issued, the m_model uniform of its shadow program holds the object's
\* own model matrix.
C19_OwnStateAtDraw ==
    /\ (lastDraw.pass = "color" /\ lastDraw.obj >= 1) =>
          /\ program[vaos[lastDraw.vao].program].m_model = objects[lastDraw.obj].m_model
          /\ units["unit0"].t2d = objects[lastDraw.obj].tex_id
          /\ vaos[lastDraw.vao].program = "default"
    /\ lastDraw.pass = "shadow" =>
          /\ program[vaos[lastDraw.vao].program].m_model = objects[lastDraw.obj].m_model
          /\ vaos[lastDraw.vao].program = "shadow_map"

C19_Witness ==
    /\ lastDraw.pass = "shadow"
    /\ lastDraw.obj = 2
    /\ frame = MaxFrames
    /\ objects[2].m_model # objects[1].m_model
    /\ objects[2].tex_id # objects[1].tex_id
    /\ program["shadow_map"].m_model = objects[2].m_model
    /\ program["default"].m_model = objects[Len(objects)].m_model

====
